---- MODULE Spec2Model ----
(***************************************************************************)
(* A model of avocado/utils/pci.py: the mutating operations (bind, unbind, *)
(* reset, rescan, change_domain), each one control-file write followed by  *)
(* a wait_for poll loop, run against a kernel that applies a write at a    *)
(* moment of its own choosing; and the query operations, each one parse of *)
(* the text an lspci invocation printed.                                   *)
(***************************************************************************)
EXTENDS Integers, Sequences, FiniteSets, TLC

VARIABLES
    pc,          \* position of the current call: idle, write, poll, sleep, done
    op,          \* the operation being called
    dom,         \* change_domain's dom argument
    def_dom,     \* change_domain's def_dom argument
    bound,       \* /sys/bus/pci/drivers/{driver}/{addr} exists
    present,     \* the device is listed by lspci (its sysfs directory exists)
    typefile,    \* the line held by .../iommu_group/type
    pending,     \* the write the kernel has accepted and not yet applied
    elapsed,     \* seconds since wait_for started
    writes,      \* the control-file writes this call has attempted, in order
    seen,        \* what the polls of this call have observed
    last_obs,    \* what the latest poll observed
    first_poll,  \* the value of the predicate at its first evaluation
    wf_result,   \* what wait_for gave back to the operation
    honoured,    \* the kernel applied this call's write within the timeout
    start_bound, \* bound, as it was when the call started
    outcome,     \* how the call ended
    prev,        \* the call before this one
    out,         \* stdout_text of the lspci invocation of a query
    prop,        \* get_pci_prop's prop argument
    class_id,    \* the Class ID get_pci_class_name looked up
    result,      \* what a query returned or raised
    others,      \* the other devices on the bus that are there
    line_no,     \* get_pci_addresses: the line of the listing its loop is at
    addresses,   \* get_pci_addresses: the addresses appended so far
    lookups      \* get_pci_addresses: what each Class lookup of this call gave

vars == <<pc, op, dom, def_dom, bound, present, typefile, pending, elapsed,
          writes, seen, last_obs, first_poll, wf_result, honoured, start_bound,
          outcome, prev, out, prop, class_id, result, others, line_no, addresses,
          lookups>>

sysvars == <<bound, present, typefile>>
callvars == <<op, dom, def_dom, start_bound>>
pollvars == <<elapsed, seen, last_obs, first_poll, wf_result>>
queryvars == <<out, prop, class_id, result>>
addrvars == <<others, line_no, addresses, lookups>>

(***************************************************************************)
(* The one device and driver the calls are about.                          *)
(***************************************************************************)
full_pci_address == "0000:03:00.0"
driver == "nvme"

Timeout == 5
Step == 1

\* the devices of the bus besides full_pci_address, and every address in the
\* order lspci lists them
OtherDevices == {"0000:00:00.0", "0000:00:1c.0", "0000:04:00.0"}
BusOrder == <<"0000:00:00.0", "0000:00:1c.0", "0000:03:00.0", "0000:04:00.0">>

MutOps == {"bind", "unbind", "reset", "rescan", "change_domain"}
Doms == {"auto", "DMA", "identity"}
DefDoms == {"DMA", "identity"}
TypeLines == {"DMA", "identity", ""}

Running == [exc |-> "running", msg |-> ""]
Returned == [exc |-> "returned", msg |-> ""]
Raised(e, m) == [exc |-> e, msg |-> m]
\* what a query gave: a value, None, or an exception
PyValue(v) == [kind |-> "value", val |-> v, msg |-> ""]
PyNone == [kind |-> "None", val |-> "", msg |-> ""]
PyRaise(e, m) == [kind |-> "raise", val |-> e, msg |-> m]
NoResult == [kind |-> "none", val |-> "", msg |-> ""]
NoPrev == [op |-> "none", returned |-> FALSE, honoured |-> FALSE, start_bound |-> FALSE]

(***************************************************************************)
(* Python's str methods, on TLA+ strings.                                  *)
(***************************************************************************)
IsSpace(c) == c \in {" ", "\t", "\n"}
Char(s, i) == SubSeq(s, i, i)

\* s.strip()
RECURSIVE LStrip(_)
LStrip(s) == IF Len(s) > 0 /\ IsSpace(Char(s, 1)) THEN LStrip(SubSeq(s, 2, Len(s))) ELSE s
RECURSIVE RStrip(_)
RStrip(s) == IF Len(s) > 0 /\ IsSpace(Char(s, Len(s))) THEN RStrip(SubSeq(s, 1, Len(s) - 1)) ELSE s
Strip(s) == RStrip(LStrip(s))

\* s.split(), s.rsplit(None, 1): the whitespace-separated tokens of s
\* the index after the token that starts at i
TokenEnd(s, i) ==
    LET at == {j \in i..Len(s) : IsSpace(Char(s, j))}
    IN IF at = {} THEN Len(s) + 1 ELSE CHOOSE j \in at : \A k \in at : j <= k
RECURSIVE SplitWS(_)
SplitWS(s) ==
    LET t == LStrip(s)
        e == TokenEnd(t, 1)
    IN IF t = "" THEN <<>> ELSE <<SubSeq(t, 1, e - 1)>> \o SplitWS(SubSeq(t, e, Len(t)))
\* s.rsplit(None, 1): at most one split, from the right
RSplit1(s) ==
    LET toks == SplitWS(s)
        t == RStrip(s)
        last == toks[Len(toks)]
    IN IF Len(toks) = 0 THEN <<>>
       ELSE IF Len(toks) = 1 THEN <<last>>
       ELSE <<RStrip(SubSeq(t, 1, Len(t) - Len(last))), last>>

\* s.find(c, i): the first index from i on that holds c, 0 when there is none
Find(s, c, i) ==
    LET at == {j \in i..Len(s) : Char(s, j) = c}
    IN IF at = {} THEN 0 ELSE CHOOSE j \in at : \A k \in at : j <= k

\* s.split(sep), sep one character
RECURSIVE Split(_, _)
Split(s, sep) ==
    LET i == Find(s, sep, 1)
    IN IF i = 0 THEN <<s>> ELSE <<SubSeq(s, 1, i - 1)>> \o Split(SubSeq(s, i + 1, Len(s)), sep)

\* sep.join(parts)
RECURSIVE Join(_, _)
Join(parts, sep) ==
    IF Len(parts) = 0 THEN ""
    ELSE IF Len(parts) = 1 THEN parts[1]
    ELSE parts[1] \o sep \o Join(Tail(parts), sep)

\* s.splitlines()
RECURSIVE SplitLines(_)
SplitLines(s) ==
    LET i == Find(s, "\n", 1)
    IN IF s = "" THEN <<>>
       ELSE IF i = 0 THEN <<s>>
       ELSE <<SubSeq(s, 1, i - 1)>> \o SplitLines(SubSeq(s, i + 1, Len(s)))

\* sub in s
Contains(s, sub) == \E i \in 1..(Len(s) - Len(sub) + 1) : SubSeq(s, i, i + Len(sub) - 1) = sub

\* int(s), s a decimal numeral
Digits == <<"0", "1", "2", "3", "4", "5", "6", "7", "8", "9">>
DigitValue(c) == (CHOOSE i \in 1..10 : Digits[i] = c) - 1
IsNumeral(s) == Len(s) > 0 /\ \A i \in 1..Len(s) : \E d \in 1..10 : Digits[d] = Char(s, i)
RECURSIVE ParseInt(_)
ParseInt(s) == IF s = "" THEN 0 ELSE 10 * ParseInt(SubSeq(s, 1, Len(s) - 1)) + DigitValue(Char(s, Len(s)))

(***************************************************************************)
(* Python's int is unbounded: a number is the sequence of its base-4096    *)
(* digits (three hexadecimal digits each), lowest first, no leading zero.  *)
(***************************************************************************)
Base == 16 * 16 * 16

RECURSIVE Big(_)
Big(n) == IF n = 0 THEN <<>> ELSE <<n % Base>> \o Big(n \div Base)

LimbAt(a, i) == IF i >= 1 /\ i <= Len(a) THEN a[i] ELSE 0

RECURSIVE Trim(_)
Trim(a) == IF Len(a) > 0 /\ a[Len(a)] = 0 THEN Trim(SubSeq(a, 1, Len(a) - 1)) ELSE a

\* the digits of a sequence of column sums, carries propagated
RECURSIVE Carry(_, _, _)
Carry(cols, i, c) ==
    IF i > Len(cols) THEN Big(c)
    ELSE <<(cols[i] + c) % Base>> \o Carry(cols, i + 1, (cols[i] + c) \div Base)

\* a * b
RECURSIVE Column(_, _, _, _)
Column(a, b, k, i) ==
    IF i > Len(a) THEN 0 ELSE a[i] * LimbAt(b, k - i + 1) + Column(a, b, k, i + 1)
BigMul(a, b) == Trim(Carry([k \in 1..(Len(a) + Len(b)) |-> Column(a, b, k, 1)], 1, 0))

\* a - 1, a positive
RECURSIVE BigDec(_)
BigDec(a) == IF a[1] > 0 THEN Trim(<<a[1] - 1>> \o Tail(a)) ELSE <<Base - 1>> \o BigDec(Tail(a))

\* x ^ y of two digits
RECURSIVE XorDigit(_, _)
XorDigit(x, y) ==
    IF x = 0 /\ y = 0 THEN 0 ELSE ((x + y) % 2) + 2 * XorDigit(x \div 2, y \div 2)

\* a ^ b
BigXor(a, b) ==
    LET n == IF Len(a) > Len(b) THEN Len(a) ELSE Len(b)
    IN Trim([i \in 1..n |-> XorDigit(LimbAt(a, i), LimbAt(b, i))])

\* hex(a)
HexDigits == <<"0", "1", "2", "3", "4", "5", "6", "7", "8", "9", "a", "b", "c", "d", "e", "f">>
Hex3(d) ==
    HexDigits[1 + (d \div 256)] \o HexDigits[1 + ((d \div 16) % 16)] \o HexDigits[1 + (d % 16)]
RECURSIVE DropZeros(_)
DropZeros(s) == IF Len(s) > 1 /\ Char(s, 1) = "0" THEN DropZeros(SubSeq(s, 2, Len(s))) ELSE s
RECURSIVE HexFrom(_, _)
HexFrom(a, i) == IF i > Len(a) THEN "" ELSE HexFrom(a, i + 1) \o Hex3(a[i])
Hex(a) == "0x" \o DropZeros("0" \o HexFrom(Trim(a), 1))

(***************************************************************************)
(* The collaborators that are not part of pci.py.                          *)
(***************************************************************************)
\* wait.wait_for(func, timeout): one turn of its loop, at `e` seconds, the
\* predicate having given p.
\* wait_for with the deadline tested one step ahead
wait_for_early(p, e, timeout) ==
    IF p = "True" THEN "True"
    ELSE IF p # "False" THEN p
    ELSE IF e + Step >= timeout THEN "False"
    ELSE "sleep"

wait_for(p, e, timeout) ==
    IF p = "True" THEN "True"
    ELSE IF p # "False" THEN p
    ELSE IF e >= timeout THEN "False"
    ELSE "sleep"

\* what each operation's predicate reads: os.path.exists of the bound path,
\* process.run of lspci -vvs, genio.read_one_line of the type file
Obs(e, t) == [err |-> e, text |-> t]
Observe(o, rd) ==
    CASE o \in {"bind", "unbind"} -> Obs("", IF bound THEN "exists" ELSE "absent")
      [] o \in {"reset", "rescan"} ->
            Obs("", IF present THEN "03:00.0 Non-Volatile memory controller\n" ELSE "")
      [] o = "change_domain" -> IF rd = "OSError" THEN Obs("OSError", "") ELSE Obs("", typefile)

ReadOutcomes(o) == IF o = "change_domain" THEN {"ok", "OSError"} ELSE {"ok"}

(***************************************************************************)
(* pci.py: the predicates.                                                 *)
(***************************************************************************)
path_exists(obs) == IF obs.text = "exists" THEN "True" ELSE "False"

reset_check(output) == IF output = "" THEN "False" ELSE "True"

rescan_check(output) == IF output = "" THEN "False" ELSE "True"

\* change_domain_check without the comparison to def_dom
change_domain_check_any_default(d, obs, dd) ==
    IF obs.err = "OSError" THEN "ValueError"
    ELSE LET output == obs.text
             toks == RSplit1(output)
             o == toks[Len(toks)]
         IN IF Len(toks) = 0 THEN "IndexError"
            ELSE IF d \notin {"auto", o} THEN "False"
            ELSE "True"

change_domain_check(d, obs, dd) ==
    IF obs.err = "OSError" THEN "ValueError"
    ELSE LET output == obs.text
             toks == RSplit1(output)
             o == toks[Len(toks)]
         IN IF Len(toks) = 0 THEN "IndexError"
            ELSE IF (d \notin {"auto", o}) \/ (d = "auto" /\ o # dd) THEN "False"
            ELSE "True"

Predicate(o, obs) ==
    CASE o \in {"bind", "unbind"} -> path_exists(obs)
      [] o = "reset" -> reset_check(obs.text)
      [] o = "rescan" -> rescan_check(obs.text)
      [] o = "change_domain" -> change_domain_check(dom, obs, def_dom)

(***************************************************************************)
(* pci.py: the control file each operation writes, and what it writes.     *)
(***************************************************************************)
ControlFile(o) ==
    CASE o = "bind" -> "/sys/bus/pci/drivers/" \o driver \o "/bind"
      [] o = "unbind" -> "/sys/bus/pci/drivers/" \o driver \o "/unbind"
      [] o = "reset" -> "/sys/bus/pci/devices/" \o full_pci_address \o "/remove"
      [] o = "rescan" -> "/sys/bus/pci/rescan"
      [] o = "change_domain" -> "/sys/bus/pci/devices/" \o full_pci_address \o "/iommu_group/type"

ControlValue(o) ==
    CASE o \in {"bind", "unbind"} -> full_pci_address
      [] o \in {"reset", "rescan"} -> "1"
      [] o = "change_domain" -> dom

(***************************************************************************)
(* pci.py: what each operation does with wait_for's answer.  An exception  *)
(* of the predicate passes through wait_for and the operation unchanged.   *)
(***************************************************************************)
Propagated(w) ==
    IF w = "ValueError" THEN Raised("ValueError", "Change domain check failed: OSError")
    ELSE Raised(w, "")

unbind(w) ==
    IF w \notin {"True", "False"} THEN Propagated(w)
    ELSE IF w = "True"
         THEN Raised("ValueError", "Not able to unbind " \o full_pci_address \o " from " \o driver)
         ELSE Returned

\* bind with the test of unbind
bind_inverted(w) ==
    IF w \notin {"True", "False"} THEN Propagated(w)
    ELSE IF w = "True"
         THEN Raised("ValueError", "Not able to bind " \o full_pci_address \o " to " \o driver)
         ELSE Returned

bind(w) ==
    IF w \notin {"True", "False"} THEN Propagated(w)
    ELSE IF ~(w = "True")
         THEN Raised("ValueError", "Not able to bind " \o full_pci_address \o " to " \o driver)
         ELSE Returned

reset(w) ==
    IF w \notin {"True", "False"} THEN Propagated(w)
    ELSE IF ~(w = "True")
         THEN Raised("ValueError", "Unsuccessful to remove " \o full_pci_address)
         ELSE Returned

rescan(w) ==
    IF w \notin {"True", "False"} THEN Propagated(w)
    ELSE IF ~(w = "True")
         THEN Raised("ValueError", "Unsuccessful to rescan for " \o full_pci_address)
         ELSE Returned

change_domain(w) ==
    IF w \notin {"True", "False"} THEN Propagated(w)
    ELSE IF ~(w = "True")
         THEN Raised("ValueError", "Domain type change failed for " \o full_pci_address)
         ELSE Returned

Finish(o, w) ==
    CASE o = "bind" -> bind(w)
      [] o = "unbind" -> unbind(w)
      [] o = "reset" -> reset(w)
      [] o = "rescan" -> rescan(w)
      [] o = "change_domain" -> change_domain(w)

(***************************************************************************)
(* The initial state: no call in progress, the system in any state.        *)
(***************************************************************************)
IdleCall ==
    /\ pc = "idle"
    /\ op = "none"
    /\ dom = "none"
    /\ def_dom = "none"
    /\ pending = "none"
    /\ elapsed = 0
    /\ writes = <<>>
    /\ seen = {}
    /\ last_obs = Obs("none", "")
    /\ first_poll = "none"
    /\ wf_result = "none"
    /\ honoured = FALSE
    /\ start_bound = FALSE
    /\ outcome = Running
    /\ prev = NoPrev
    /\ out = ""
    /\ prop = "none"
    /\ class_id = NoResult
    /\ result = NoResult
    /\ line_no = 0
    /\ addresses = <<>>
    /\ lookups = <<>>

\* a device that is not there is bound to no driver
Init ==
    /\ IdleCall
    /\ bound \in BOOLEAN
    /\ present \in BOOLEAN
    /\ bound => present
    /\ typefile \in TypeLines
    /\ others = OtherDevices

(***************************************************************************)
(* A call of a mutating operation starts.                                  *)
(***************************************************************************)
Call(o) ==
    /\ pc = "idle"
    /\ pc' = "write"
    /\ op' = o
    /\ IF o = "change_domain"
       THEN dom' \in Doms /\ def_dom' \in DefDoms
       ELSE dom' = "none" /\ def_dom' = "none"
    /\ start_bound' = bound
    /\ elapsed' = 0
    /\ writes' = <<>>
    /\ seen' = {}
    /\ last_obs' = Obs("none", "")
    /\ first_poll' = "none"
    /\ wf_result' = "none"
    /\ honoured' = FALSE
    /\ outcome' = Running
    /\ UNCHANGED <<sysvars, pending, prev, queryvars, addrvars>>

\* a control file under the device's sysfs directory is there only with the
\* device, and a driver takes a bind only of a device that is there
Writable(o) == o \in {"unbind", "rescan"} \/ present

\* genio.write_file_or_fail(path, value) succeeds: the kernel has taken the write
WriteOk ==
    /\ pc = "write"
    /\ Writable(op)
    /\ writes' = Append(writes, [path |-> ControlFile(op), value |-> ControlValue(op), ok |-> TRUE])
    /\ pending' = op
    /\ pc' = "poll"
    /\ UNCHANGED <<sysvars, callvars, pollvars, honoured, outcome, prev, queryvars, addrvars>>

\* a failed write that the operation goes on from
WriteFailSwallowed ==
    /\ pc = "write"
    /\ writes' = Append(writes, [path |-> ControlFile(op), value |-> ControlValue(op), ok |-> FALSE])
    /\ pc' = "poll"
    /\ UNCHANGED <<sysvars, callvars, pollvars, pending, honoured, outcome, prev, queryvars, addrvars>>

\* genio.write_file_or_fail(path, value) raises: the operation ends with its error
WriteFail ==
    /\ pc = "write"
    /\ writes' = Append(writes, [path |-> ControlFile(op), value |-> ControlValue(op), ok |-> FALSE])
    /\ outcome' = Raised("WriteError", ControlFile(op))
    /\ pc' = "done"
    /\ UNCHANGED <<sysvars, callvars, pollvars, pending, honoured, prev, queryvars, addrvars>>

\* wait_for evaluates the predicate, and returns or goes to sleep
Poll ==
    /\ pc = "poll"
    /\ \E rd \in ReadOutcomes(op) :
        LET obs == Observe(op, rd)
            p == Predicate(op, obs)
            w == wait_for(p, elapsed, Timeout)
        IN /\ seen' = seen \cup {obs}
           /\ last_obs' = obs
           /\ first_poll' = IF first_poll = "none" THEN p ELSE first_poll
           /\ IF w = "sleep"
              THEN /\ pc' = "sleep"
                   /\ UNCHANGED <<wf_result, outcome>>
              ELSE /\ pc' = "done"
                   /\ wf_result' = w
                   /\ outcome' = Finish(op, w)
    /\ UNCHANGED <<sysvars, callvars, pending, elapsed, writes, honoured, prev, queryvars, addrvars>>

\* wait_for sleeps one step
Sleep ==
    /\ pc = "sleep"
    /\ elapsed' = elapsed + Step
    /\ pc' = "poll"
    /\ UNCHANGED <<sysvars, callvars, pending, writes, seen, last_obs, first_poll,
                   wf_result, honoured, outcome, prev, queryvars, addrvars>>

\* the kernel applies the write it has accepted
KernelApply ==
    /\ pc \in {"poll", "sleep", "done"}
    /\ pending # "none"
    /\ pending' = "none"
    /\ honoured' = (pc # "done" \/ elapsed < Timeout)
    /\ CASE pending = "bind" -> bound' = present /\ UNCHANGED <<present, typefile>>
         [] pending = "unbind" -> bound' = FALSE /\ UNCHANGED <<present, typefile>>
         [] pending = "reset" -> present' = FALSE /\ bound' = FALSE /\ UNCHANGED typefile
         [] pending = "rescan" -> present' = TRUE /\ UNCHANGED <<bound, typefile>>
         [] pending = "change_domain" ->
                /\ IF dom = "auto" THEN typefile' \in DefDoms ELSE typefile' = dom
                /\ UNCHANGED <<bound, present>>
    /\ UNCHANGED <<pc, callvars, pollvars, writes, outcome, prev, queryvars, addrvars>>

\* the call is over; a write the kernel has not applied by now is never applied
Return ==
    /\ pc = "done"
    /\ op \in MutOps
    /\ pc' = "idle"
    /\ prev' = [op |-> op, returned |-> (outcome = Returned), honoured |-> honoured,
                start_bound |-> start_bound]
    /\ pending' = "none"
    /\ UNCHANGED <<sysvars, callvars, pollvars, writes, honoured, outcome, queryvars, addrvars>>

Next ==
    \/ \E o \in MutOps : Call(o)
    \/ WriteOk
    \/ WriteFail
    \/ Poll
    \/ Sleep
    \/ KernelApply
    \/ Return

Spec == Init /\ [][Next]_vars

(***************************************************************************)
(* pci.py: the query operations, as functions of the text lspci printed.   *)
(***************************************************************************)
\* the for loop of get_pci_prop, from line i on
RECURSIVE get_pci_prop_loop(_, _, _)
get_pci_prop_loop(lines, i, pr) ==
    IF i > Len(lines) THEN PyNone
    ELSE IF pr = Split(lines[i], ":")[1]
         THEN LET toks == SplitWS(lines[i])
              IN IF Len(toks) = 0 THEN PyRaise("IndexError", "list index out of range")
                 ELSE PyValue(toks[Len(toks)])
         ELSE get_pci_prop_loop(lines, i + 1, pr)

get_pci_prop(output, pr) ==
    IF output # "" THEN get_pci_prop_loop(SplitLines(output), 1, pr) ELSE PyNone

DictSet(d, k, v) == [x \in (DOMAIN d) \cup {k} |-> IF x = k THEN v ELSE d[x]]

\* the for loop of get_pci_info, from line i on
RECURSIVE get_pci_info_loop(_, _, _)
get_pci_info_loop(lines, i, pci_info) ==
    IF i > Len(lines) THEN pci_info
    ELSE LET line == lines[i]
         IN get_pci_info_loop(lines, i + 1,
                IF Strip(line) # ""
                THEN DictSet(pci_info, Strip(Split(line, ":")[1]),
                             Strip(Join(Tail(Split(line, ":")), ":")))
                ELSE pci_info)

get_pci_info(output) ==
    IF output = "" THEN PyNone
    ELSE PyValue(get_pci_info_loop(SplitLines(output), 1, <<>>))

pci_class_dic ==
    [k \in {"0104", "0c04", "0200", "0108", "0280", "0207", "0c03"} |->
        CASE k = "0104" -> "scsi_host"
          [] k = "0c04" -> "fc_host"
          [] k = "0200" -> "net"
          [] k = "0108" -> "nvme"
          [] k = "0280" -> "net"
          [] k = "0207" -> "net"
          [] k = "0c03" -> "usb"]

\* get_pci_class_name with pci_class_dic.get alone, no raise
get_pci_class_name_lenient(pci_class_id) ==
    IF pci_class_id.kind = "raise" THEN pci_class_id
    ELSE IF pci_class_id.kind = "None" \/ pci_class_id.val \notin DOMAIN pci_class_dic
         THEN PyNone
         ELSE PyValue(pci_class_dic[pci_class_id.val])

\* get_pci_class_name, from what get_pci_prop(pci_address, "Class") gave
get_pci_class_name(pci_class_id) ==
    IF pci_class_id.kind = "raise" THEN pci_class_id
    ELSE IF pci_class_id.kind = "None" \/ pci_class_id.val \notin DOMAIN pci_class_dic
         THEN IF pci_class_id.kind = "None"
              THEN PyRaise("ValueError", "Unable to get 'Class' property of given pci address "
                                         \o full_pci_address)
              ELSE PyRaise("ValueError", "Class ID " \o pci_class_id.val
                                         \o " is not defined in this library please send an update")
         ELSE PyValue(pci_class_dic[pci_class_id.val])

\* dic of get_mask
dic == [u \in {"K", "M", "G"} |->
           CASE u = "K" -> 1024 [] u = "M" -> 1048576 [] u = "G" -> 1073741824]

\* 4294967295 = 0xff fff fff
AllOnes32 == <<4095, 4095, 255>>

\* the for loop of get_mask, from line i on: the memory_size it leaves
RECURSIVE get_mask_loop(_, _)
get_mask_loop(lines, i) ==
    IF i > Len(lines) THEN PyRaise("UnboundLocalError", "memory_size")
    ELSE LET line == lines[i]
             eq == Split(line, "=")
             val == Split(eq[Len(eq)], "]")[1]
             num == SubSeq(val, 1, Len(val) - 1)
             unit == Char(val, Len(val))
         IN IF Contains(line, "Region") /\ Contains(line, "Memory at")
            THEN IF ~IsNumeral(num) THEN PyRaise("ValueError", "invalid literal for int()")
                 ELSE IF unit \notin DOMAIN dic THEN PyRaise("KeyError", unit)
                 ELSE PyValue(BigMul(Big(ParseInt(num)), Big(dic[unit])))
            ELSE get_mask_loop(lines, i + 1)

\* a region of size 0 is not among the inputs: memory_size - 1 stays positive
get_mask(output) ==
    IF output = "" THEN PyNone
    ELSE LET memory_size == get_mask_loop(SplitLines(output), 1)
         IN IF memory_size.kind = "raise" THEN memory_size
            ELSE PyValue(Hex(BigXor(BigDec(memory_size.val), AllOnes32)))

(***************************************************************************)
(* What lspci may print: up to MaxLines lines, each ended by a newline.    *)
(***************************************************************************)
MaxLines == 3

RECURSIVE TextsOf(_, _)
TextsOf(lines, n) ==
    IF n = 0 THEN {""}
    ELSE {""} \cup {l \o "\n" \o t : l \in lines, t \in TextsOf(lines, n - 1)}

NvmmLines == {"Slot:\t0000:03:00.0", "Class:\t0108", "Class:\t0604", "Vendor:\t144d", "", " "}

ClassLines ==
    {"Class:\t0104", "Class:\t0c04", "Class:\t0200", "Class:\t0108", "Class:\t0280",
     "Class:\t0207", "Class:\t0c03", "Class:\t0604", "Class:\tffff", "Vendor:\t144d", ""}

VvLines ==
    {"0000:03:00.0 Non-Volatile memory controller: Samsung (prog-if 02 [NVM Express])",
     "\tRegion 0: Memory at f7d00000 (64-bit, non-prefetchable) [size=16K]",
     "\tRegion 1: Memory at e0000000 (64-bit, prefetchable) [size=256M]",
     "\tRegion 2: I/O ports at e000 [size=64]",
     "\tRegion 3: Memory at 380000000000 (64-bit, prefetchable) [size=8G]",
     "\tRegion 4: Memory at f7d04000 (32-bit, non-prefetchable) [size=512]",
     "\tCapabilities: [40] Power Management version 3"}

Props == {"Class", "Vendor", "Device"}

QueryOps == {"get_pci_prop", "get_pci_info", "get_pci_class_name", "get_mask"}

QueryInit ==
    /\ IdleCall
    /\ bound = FALSE
    /\ present = TRUE
    /\ typefile = "DMA"
    /\ others = OtherDevices

mutvars == <<dom, def_dom, sysvars, pending, elapsed, writes, seen, last_obs, first_poll,
             wf_result, honoured, start_bound, outcome, prev>>

call_get_pci_prop ==
    /\ pc = "idle"
    /\ \E text \in TextsOf(NvmmLines, MaxLines), pr \in Props :
        /\ out' = text
        /\ prop' = pr
        /\ result' = get_pci_prop(text, pr)
    /\ op' = "get_pci_prop"
    /\ pc' = "done"
    /\ UNCHANGED <<class_id, mutvars, addrvars>>

call_get_pci_info ==
    /\ pc = "idle"
    /\ \E text \in TextsOf(NvmmLines, MaxLines) :
        /\ out' = text
        /\ result' = get_pci_info(text)
    /\ op' = "get_pci_info"
    /\ pc' = "done"
    /\ UNCHANGED <<prop, class_id, mutvars, addrvars>>

call_get_pci_class_name ==
    /\ pc = "idle"
    /\ \E text \in TextsOf(ClassLines, MaxLines) :
        /\ out' = text
        /\ class_id' = get_pci_prop(text, "Class")
        /\ result' = get_pci_class_name(get_pci_prop(text, "Class"))
    /\ op' = "get_pci_class_name"
    /\ pc' = "done"
    /\ UNCHANGED <<prop, mutvars, addrvars>>

call_get_mask ==
    /\ pc = "idle"
    /\ \E text \in TextsOf(VvLines, MaxLines) :
        /\ out' = text
        /\ result' = get_mask(text)
    /\ op' = "get_mask"
    /\ pc' = "done"
    /\ UNCHANGED <<prop, class_id, mutvars, addrvars>>

QueryReturn ==
    /\ pc = "done"
    /\ op \in QueryOps
    /\ pc' = "idle"
    /\ op' = "none"
    /\ out' = ""
    /\ prop' = "none"
    /\ class_id' = NoResult
    /\ result' = NoResult
    /\ UNCHANGED <<mutvars, addrvars>>

QueryNext ==
    \/ call_get_pci_prop
    \/ call_get_pci_info
    \/ call_get_pci_class_name
    \/ call_get_mask
    \/ QueryReturn

QuerySpec == QueryInit /\ [][QueryNext]_vars

(***************************************************************************)
(* pci.py: get_pci_addresses, one lspci -D listing and then one Class      *)
(* lookup per listed line, run while devices leave and join the bus.       *)
(***************************************************************************)
\* the devices that are there now
Listed == others \cup (IF present THEN {full_pci_address} ELSE {})

\* the Class ID and the description lspci gives for each address
ClassOf(a) ==
    CASE a = "0000:00:00.0" -> "0600"
      [] a = "0000:00:1c.0" -> "0604"
      [] a = "0000:03:00.0" -> "0108"
      [] a = "0000:04:00.0" -> "0200"
DescriptionOf(a) ==
    CASE a = "0000:00:00.0" -> "Host bridge: Intel"
      [] a = "0000:00:1c.0" -> "PCI bridge: Intel"
      [] a = "0000:03:00.0" -> "Non-Volatile memory controller: Samsung"
      [] a = "0000:04:00.0" -> "Ethernet controller: Intel"

\* process.run("lspci -D").stdout_text: one line for each device that is there
RECURSIVE lspci_D_from(_, _)
lspci_D_from(i, listed) ==
    IF i > Len(BusOrder) THEN ""
    ELSE (IF BusOrder[i] \in listed
          THEN BusOrder[i] \o " " \o DescriptionOf(BusOrder[i]) \o "\n"
          ELSE "") \o lspci_D_from(i + 1, listed)
lspci_D(listed) == lspci_D_from(1, listed)

\* process.run("lspci -Dnvmm -s {pci_address}").stdout_text: the record of the
\* device, nothing for a device that is not there
lspci_Dnvmm(a, listed) ==
    IF a \in listed
    THEN "Slot:\t" \o a \o "\nClass:\t" \o ClassOf(a) \o "\nVendor:\t8086\n"
    ELSE ""

\* s.startswith(p)
StartsWith(s, p) == Len(s) >= Len(p) /\ SubSeq(s, 1, Len(p)) = p

\* the variables of a mutating call that a query leaves alone
waitvars == <<dom, def_dom, typefile, pending, elapsed, writes, seen, last_obs,
              first_poll, wf_result, honoured, start_bound, outcome, prev>>

AddrInit ==
    /\ IdleCall
    /\ bound = FALSE
    /\ present \in BOOLEAN
    /\ typefile = "DMA"
    /\ others \in SUBSET OtherDevices

\* get_pci_addresses up to its loop: addresses = [], the lspci -D listing taken
call_get_pci_addresses ==
    /\ pc = "idle"
    /\ op' = "get_pci_addresses"
    /\ out' = lspci_D(Listed)
    /\ line_no' = 1
    /\ addresses' = <<>>
    /\ lookups' = <<>>
    /\ result' = NoResult
    /\ pc' = "loop"
    /\ UNCHANGED <<prop, class_id, others, sysvars, waitvars>>

\* one turn of the loop of get_pci_addresses, or the return after its last
get_pci_addresses_step ==
    /\ pc = "loop"
    /\ op = "get_pci_addresses"
    /\ LET lines == SplitLines(out)
       IN IF line_no > Len(lines)
          THEN /\ result' = PyValue(addresses)
               /\ pc' = "done"
               /\ UNCHANGED <<line_no, addresses, lookups, class_id>>
          ELSE LET addr == SplitWS(lines[line_no])[1]
                   cls == get_pci_prop(lspci_Dnvmm(addr, Listed), "Class")
               IN /\ lookups' = Append(lookups, [addr |-> addr, cls |-> cls])
                  /\ class_id' = cls
                  /\ IF cls.kind = "None"
                     THEN /\ result' = PyRaise("AttributeError",
                                  "'NoneType' object has no attribute 'startswith'")
                          /\ pc' = "done"
                          /\ UNCHANGED <<line_no, addresses>>
                     ELSE IF cls.kind = "raise"
                     THEN /\ result' = cls
                          /\ pc' = "done"
                          /\ UNCHANGED <<line_no, addresses>>
                     ELSE /\ addresses' = IF ~StartsWith(cls.val, "06")
                                          THEN Append(addresses, addr)
                                          ELSE addresses
                          /\ line_no' = line_no + 1
                          /\ UNCHANGED <<result, pc>>
    /\ UNCHANGED <<op, out, prop, others, sysvars, waitvars>>

\* a device leaves the bus
Remove(d) ==
    /\ pc \in {"idle", "loop"}
    /\ d \in Listed
    /\ IF d = full_pci_address
       THEN present' = FALSE /\ UNCHANGED others
       ELSE others' = others \ {d} /\ UNCHANGED present
    /\ UNCHANGED <<pc, op, bound, queryvars, line_no, addresses, lookups, waitvars>>

\* a device joins the bus
Insert(d) ==
    /\ pc \in {"idle", "loop"}
    /\ d \notin Listed
    /\ IF d = full_pci_address
       THEN present' = TRUE /\ UNCHANGED others
       ELSE others' = others \cup {d} /\ UNCHANGED present
    /\ UNCHANGED <<pc, op, bound, queryvars, line_no, addresses, lookups, waitvars>>

AddrReturn ==
    /\ pc = "done"
    /\ op = "get_pci_addresses"
    /\ pc' = "idle"
    /\ op' = "none"
    /\ out' = ""
    /\ class_id' = NoResult
    /\ result' = NoResult
    /\ line_no' = 0
    /\ addresses' = <<>>
    /\ lookups' = <<>>
    /\ UNCHANGED <<prop, others, sysvars, waitvars>>

AddrNext ==
    \/ call_get_pci_addresses
    \/ get_pci_addresses_step
    \/ \E d \in OtherDevices \cup {full_pci_address} : Remove(d)
    \/ \E d \in OtherDevices \cup {full_pci_address} : Insert(d)
    \/ AddrReturn

AddrSpec == AddrInit /\ [][AddrNext]_vars

(***************************************************************************)
(* The claims.                                                             *)
(***************************************************************************)
Ended(o) == pc = "done" /\ op = o
Polled(o) == Ended(o) /\ seen # {}

\* the last whitespace-separated token of s, or "" when s has none
LastToken(s) ==
    LET nonspace == {i \in 1..Len(s) : ~IsSpace(Char(s, i))}
        e == CHOOSE i \in nonspace : \A j \in nonspace : j <= i
        spaces == {i \in 1..e : IsSpace(Char(s, i))}
        b == IF spaces = {} THEN 0 ELSE CHOOSE i \in spaces : \A j \in spaces : j <= i
    IN IF nonspace = {} THEN "" ELSE SubSeq(s, b + 1, e)

\* C1: bind writes the address to the driver's bind file; it then returns
\* normally exactly when some poll saw the bound path exist, and when every
\* poll up to the timeout saw it absent it raises the ValueError that names
\* the address and the driver.
C1_BindReturnsIffPathSeen ==
    Polled("bind") =>
        /\ writes = <<[path |-> "/sys/bus/pci/drivers/nvme/bind",
                       value |-> "0000:03:00.0", ok |-> TRUE]>>
        /\ (outcome = Returned) <=> (\E o \in seen : o.text = "exists")
        /\ (\A o \in seen : o.text = "absent") =>
              /\ elapsed >= Timeout
              /\ outcome = Raised("ValueError", "Not able to bind 0000:03:00.0 to nvme")

C1_Witness ==
    /\ Polled("bind")
    /\ outcome = Returned
    /\ Obs("", "absent") \in seen
    /\ elapsed > 0

C1_WitnessTimeout ==
    /\ Polled("bind")
    /\ outcome.exc = "ValueError"
    /\ elapsed = Timeout

\* C2: unbind returns normally whenever the bound path stops existing within
\* the timeout, also when the first poll still saw it, and raises ValueError
\* only when the path still exists at the timeout.
C2_UnbindReturnsWhenPathGoes ==
    Polled("unbind") =>
        /\ (honoured => outcome = Returned)
        /\ (outcome.exc = "ValueError" => elapsed >= Timeout /\ last_obs.text = "exists")

\* C3: with a kernel that applies every bind and unbind write within the
\* timeout, bind then unbind from unbound both return normally and leave the
\* device unbound, and unbind then bind from bound both return normally and
\* leave it bound.
C3_RoundTrip ==
    /\ (Ended("unbind") /\ honoured /\ prev.op = "bind" /\ prev.honoured /\ ~prev.start_bound)
          => (prev.returned /\ outcome = Returned /\ ~bound)
    /\ (Ended("bind") /\ honoured /\ prev.op = "unbind" /\ prev.honoured /\ prev.start_bound)
          => (prev.returned /\ outcome = Returned /\ bound)

\* C4: reset returns normally only if the poll that ended the wait found the
\* device gone from lspci, and raises the ValueError naming the address when
\* every poll of the window still found it listed.
C4_ResetConfirmsRemoval ==
    Polled("reset") =>
        /\ (outcome = Returned => last_obs.text = "")
        /\ (\A o \in seen : o.text # "") =>
              outcome = Raised("ValueError", "Unsuccessful to remove 0000:03:00.0")

\* C5: wait_for evaluates the predicate before it sleeps at all; a predicate
\* true at the first evaluation makes it return true with no time elapsed; a
\* predicate false at every evaluation makes it return false, and false is
\* returned only at or after the timeout; an error comes out of wait_for only
\* when the predicate raised it, never for a timeout.
C5_WaitFor ==
    /\ (pc = "sleep" => first_poll # "none")
    /\ (first_poll = "none" => elapsed = 0)
    /\ (pc = "done" /\ first_poll = "True") => (wf_result = "True" /\ elapsed = 0)
    /\ (pc = "done" /\ seen # {} /\ \A o \in seen : Predicate(op, o) = "False")
          => (wf_result = "False" /\ elapsed >= Timeout)
    /\ (wf_result = "False" => elapsed >= Timeout)
    /\ (wf_result \notin {"none", "True", "False"})
          => (\E o \in seen : Predicate(op, o) = wf_result)

C5_Witness ==
    /\ pc = "done"
    /\ op = "rescan"
    /\ wf_result = "False"
    /\ elapsed = Timeout
    /\ first_poll = "False"

\* the non-blank lines of a text, and the key and value of a "Key: value" line
NonBlank(text) == SelectSeq(SplitLines(text), LAMBDA l : \E i \in 1..Len(l) : ~IsSpace(Char(l, i)))
KeyOf(line) == Strip(SubSeq(line, 1, Find(line, ":", 1) - 1))
ValueOf(line) == Strip(SubSeq(line, Find(line, ":", 1) + 1, Len(line)))
KeysPresent(text) == {KeyOf(NonBlank(text)[i]) : i \in 1..Len(NonBlank(text))}
FirstValue(text, k) ==
    LET ls == NonBlank(text)
        at == {i \in 1..Len(ls) : KeyOf(ls[i]) = k}
    IN ValueOf(ls[CHOOSE i \in at : \A j \in at : i <= j])
KeyRepeats(text, k) ==
    Cardinality({i \in 1..Len(NonBlank(text)) : KeyOf(NonBlank(text)[i]) = k}) > 1

SevenClassIds == {"0104", "0c04", "0200", "0108", "0280", "0207", "0c03"}

\* C6: get_pci_class_name is decided by the Class ID alone: the seven IDs of
\* the table give scsi_host, fc_host, net, nvme, net, net and usb, and any
\* other ID, an absent one included, gives a ValueError and no value.
C6_ClassNameTable ==
    Ended("get_pci_class_name") =>
        /\ class_id = PyValue("0104") => result = PyValue("scsi_host")
        /\ class_id = PyValue("0c04") => result = PyValue("fc_host")
        /\ class_id = PyValue("0200") => result = PyValue("net")
        /\ class_id = PyValue("0108") => result = PyValue("nvme")
        /\ class_id = PyValue("0280") => result = PyValue("net")
        /\ class_id = PyValue("0207") => result = PyValue("net")
        /\ class_id = PyValue("0c03") => result = PyValue("usb")
        /\ (class_id = PyNone \/ (class_id.kind = "value" /\ class_id.val \notin SevenClassIds))
              => (result.kind = "raise" /\ result.val = "ValueError")
        /\ class_id.kind \in {"value", "None"}

C6_Witness ==
    /\ Ended("get_pci_class_name")
    /\ class_id = PyValue("0207")
    /\ result = PyValue("net")

C6_WitnessUnknown ==
    /\ Ended("get_pci_class_name")
    /\ class_id \in {PyNone, PyValue("ffff")}
    /\ result.kind = "raise"

\* C7: a key that repeats on the non-blank lines of the lspci -Dnvmm output is
\* reported with the value of its first occurrence by get_pci_info and by
\* get_pci_prop alike; blank lines add no key, and the keys of get_pci_info
\* are exactly the keys of the non-blank lines.
C7_FirstOccurrence ==
    /\ (Ended("get_pci_info") /\ out # "") =>
          /\ result.kind = "value"
          /\ DOMAIN result.val = KeysPresent(out)
          /\ \A k \in KeysPresent(out) : result.val[k] = FirstValue(out, k)
    /\ (Ended("get_pci_prop") /\ prop \in KeysPresent(out)) =>
          result = PyValue(FirstValue(out, prop))

\* the lines of VvLines that hold both "Region" and "Memory at", and for those
\* with a size in K, M or G the mask of that size
MemoryRegionLines ==
    {"\tRegion 0: Memory at f7d00000 (64-bit, non-prefetchable) [size=16K]",
     "\tRegion 1: Memory at e0000000 (64-bit, prefetchable) [size=256M]",
     "\tRegion 3: Memory at 380000000000 (64-bit, prefetchable) [size=8G]",
     "\tRegion 4: Memory at f7d04000 (32-bit, non-prefetchable) [size=512]"}
MaskOfLine(l) ==
    CASE l = "\tRegion 0: Memory at f7d00000 (64-bit, non-prefetchable) [size=16K]" -> "0xffffc000"
      [] l = "\tRegion 1: Memory at e0000000 (64-bit, prefetchable) [size=256M]" -> "0xf0000000"
      [] l = "\tRegion 3: Memory at 380000000000 (64-bit, prefetchable) [size=8G]" -> "0x100000000"
      [] OTHER -> "no unit"
FirstRegion(text) ==
    LET ls == SplitLines(text)
        at == {i \in 1..Len(ls) : ls[i] \in MemoryRegionLines}
    IN IF at = {} THEN "none" ELSE ls[CHOOSE i \in at : \A j \in at : i <= j]

\* C8: on non-empty lspci -vv output, get_mask returns None when no line
\* holds both "Region" and "Memory at", and when one does, with a size N in
\* K, M or G, it returns hex(((N * unit) - 1) XOR 4294967295) of the first
\* such line.
C8_MaskOrNone ==
    (Ended("get_mask") /\ out # "") =>
        /\ (FirstRegion(out) = "none" => result = PyNone)
        /\ (FirstRegion(out) # "none" /\ MaskOfLine(FirstRegion(out)) # "no unit")
              => result = PyValue(MaskOfLine(FirstRegion(out)))

\* the mask half of C8 alone
MaskOfFirstRegion ==
    (Ended("get_mask") /\ FirstRegion(out) # "none" /\ MaskOfLine(FirstRegion(out)) # "no unit")
        => result = PyValue(MaskOfLine(FirstRegion(out)))

\* the first-occurrence half of C7 for get_pci_prop alone
PropFirstOccurrence ==
    (Ended("get_pci_prop") /\ prop \in KeysPresent(out)) => result = PyValue(FirstValue(out, prop))

\* C9: an operation writes its control file at most once per call and before
\* any evaluation of its predicate; when that write fails the call ends with
\* the write's error, no predicate is ever evaluated and nothing is written
\* again.
C9_WriteOnceThenPoll ==
    /\ Len(writes) <= 1
    /\ (seen # {} \/ first_poll # "none" \/ pc \in {"poll", "sleep"})
          => (Len(writes) = 1 /\ writes[1].ok)
    /\ (Len(writes) = 1 /\ ~writes[1].ok) =>
          /\ pc \in {"done", "idle"}
          /\ outcome = Raised("WriteError", writes[1].path)
          /\ seen = {} /\ first_poll = "none" /\ wf_result = "none" /\ elapsed = 0

C9_Witness ==
    /\ pc = "done"
    /\ op = "change_domain"
    /\ Len(writes) = 1
    /\ ~writes[1].ok
    /\ outcome.exc = "WriteError"

\* what C10 asks of a poll: the type file was read and its last token is dom,
\* or def_dom when dom is "auto"
DomainMatches(o) ==
    /\ o.err = ""
    /\ LastToken(o.text) # ""
    /\ LastToken(o.text) = (IF dom = "auto" THEN def_dom ELSE dom)

\* C10 as stated: change_domain returns normally exactly when some poll found
\* the type file's last token equal to dom (def_dom for "auto"); otherwise it
\* raises ValueError "Domain type change failed" naming the address.
C10_Original ==
    Polled("change_domain") =>
        /\ (outcome = Returned) <=> (\E o \in seen : DomainMatches(o))
        /\ (~\E o \in seen : DomainMatches(o)) =>
              outcome = Raised("ValueError", "Domain type change failed for 0000:03:00.0")

\* C10 as amended: change_domain returns normally exactly when some poll found
\* the type file's last token equal to dom (def_dom for "auto"); when no poll
\* did and every poll read a line with a token in it, it raises ValueError
\* "Domain type change failed" naming the address, at the timeout; a poll whose
\* read fails with OSError ends the call with ValueError "Change domain check
\* failed", and a poll that reads an empty line ends it with IndexError.
C10_Amended ==
    Polled("change_domain") =>
        /\ (outcome = Returned) <=> (\E o \in seen : DomainMatches(o))
        /\ ((~\E o \in seen : DomainMatches(o))
              /\ \A o \in seen : o.err = "" /\ LastToken(o.text) # "") =>
              /\ outcome = Raised("ValueError", "Domain type change failed for 0000:03:00.0")
              /\ elapsed >= Timeout
        /\ (\E o \in seen : o.err = "OSError") =>
              outcome = Raised("ValueError", "Change domain check failed: OSError")
        /\ (\E o \in seen : o.err = "" /\ LastToken(o.text) = "") =>
              outcome.exc = "IndexError"

C10_Witness ==
    /\ Polled("change_domain")
    /\ dom = "auto"
    /\ outcome = Returned
    /\ elapsed > 0
    /\ Cardinality(seen) > 1

\* the addresses on the lines of an lspci -D listing
ListedIn(text) == {SplitWS(SplitLines(text)[i])[1] : i \in 1..Len(SplitLines(text))}
Bridges == {"0000:00:00.0", "0000:00:1c.0"}
RemovedBeforeLookup == \E i \in 1..Len(lookups) : lookups[i].cls.kind = "None"

\* C11: when a device of the lspci -D listing has left the bus before its Class
\* lookup ran, so that the lookup gave None, get_pci_addresses still ends by
\* returning a list, and every address in that list is a listed device that
\* is no bridge.
C11_ToleratesRemoval ==
    (Ended("get_pci_addresses") /\ RemovedBeforeLookup) =>
        /\ result.kind = "value"
        /\ \A i \in 1..Len(result.val) :
              result.val[i] \in ListedIn(out) /\ result.val[i] \notin Bridges

\* the second half of C11 alone: whatever get_pci_addresses has collected, and
\* whatever it returns, is a listed device that is no bridge
NoBridgeCollected ==
    op = "get_pci_addresses" =>
        /\ \A i \in 1..Len(addresses) :
              addresses[i] \in ListedIn(out) /\ addresses[i] \notin Bridges
        /\ (pc = "done" /\ result.kind = "value") => result.val = addresses

\* a call that no removal cut short returns its list
ReturnsListWhenNothingLeft ==
    (Ended("get_pci_addresses") /\ ~RemovedBeforeLookup) => result.kind = "value"

\* a removal met by the lookup ends the call with AttributeError
RemovalRaises ==
    (Ended("get_pci_addresses") /\ RemovedBeforeLookup) =>
        (result.kind = "raise" /\ result.val = "AttributeError")

\* the shape of the state
TypeOK ==
    /\ bound => present
    /\ pc \in {"idle", "write", "poll", "sleep", "loop", "done"}
    /\ elapsed \in 0..Timeout
    /\ Len(writes) <= 1
====
